---- MODULE Spec2Model ----
(***************************************************************************)
(* safe-portals (src/src/index.ts): composable serializers.  A serializer  *)
(* is a triple (container, read, write).  The model represents every       *)
(* JavaScript value as a tagged record, every serializer as a term, and    *)
(* read / write as recursive operators that return either a value or the   *)
(* exception thrown, together with the list of read / write calls made.    *)
(***************************************************************************)
EXTENDS Integers, Sequences, FiniteSets, TLC

VARIABLES schema, input, legacyDate, pc, decoded, typed, encoded, redecoded

vars == <<schema, input, legacyDate, pc, decoded, typed, encoded, redecoded>>

RECURSIVE ParseFloat(_), DateText(_), Read(_, _), Write(_, _)
RECURSIVE ReadEach(_, _, _, _), WriteEach(_, _, _, _)
RECURSIVE ObjReadLoop(_, _, _, _, _, _), ObjWriteLoop(_, _, _, _, _, _)
RECURSIVE SortKeys(_)
RECURSIVE ReadEachThenThrow(_, _, _, _)

(***************************************************************************)
(* JavaScript values.  Numbers are kept in thousandths (field milli), so   *)
(* that seconds with a millisecond fraction are exact; NaN is a value of   *)
(* its own.  A string is either a literal (Str) or the ISO-8601 text of a  *)
(* time value (Iso), the only strings Date.toISOString produces.           *)
(* Arithmetic on thousandths is exact: the rounding of IEEE doubles and    *)
(* the exponent notation of numbers at or above 1e21 are outside the model.*)
(***************************************************************************)
Undef == [t |-> "undefined"]

Null == [t |-> "null"]

NaN == [t |-> "NaN"]

Bool(b) == [t |-> "bool", b |-> b]

Num(k) == [t |-> "num", milli |-> k]

Whole(n) == Num(n * 1000)

Str(s) == [t |-> "str", s |-> s]

Iso(ms) == [t |-> "iso", ms |-> ms]

Date(ms) == [t |-> "date", ms |-> ms]

Arr(items) == [t |-> "arr", items |-> items]

Obj(f) == [t |-> "obj", f |-> f]

EmptyProps == [k \in {} |-> Undef]

\* o == null
IsNullish(o) == o.t \in {"undefined", "null"}

\* typeof o == 'string'
IsString(o) == o.t \in {"str", "iso"}

\* o instanceof Array
IsArray(o) == o.t = "arr"

\* o instanceof Object && !(o instanceof Array)
IsObjectNotArray(o) == o.t \in {"obj", "date"}

\* the truthiness of o in `o ? ... : ...`
Truthy(o) ==
    CASE o.t \in {"undefined", "null", "NaN"} -> FALSE
      [] o.t = "bool" -> o.b
      [] o.t = "num" -> o.milli # 0
      [] o.t = "str" -> o.s # ""
      [] OTHER -> TRUE

\* array index property names and the index each denotes
IndexNames == [n \in {"0", "1", "2"} |-> CASE n = "0" -> 0 [] n = "1" -> 1 [] n = "2" -> 2]

\* o[key] for a property name key (o is not null or undefined)
GetProp(o, key) ==
    CASE o.t = "obj" -> IF key \in DOMAIN o.f THEN o.f[key] ELSE Undef
      [] o.t = "arr" ->
            IF key \in DOMAIN IndexNames /\ IndexNames[key] < Len(o.items)
            THEN o.items[IndexNames[key] + 1]
            ELSE Undef
      [] OTHER -> Undef

\* o[i] for an array o and an index i (0-based)
GetIndex(o, i) == IF i < Len(o.items) THEN o.items[i + 1] ELSE Undef

\* the number a string literal starts with (parseFloat); absent: not-a-number
FloatPrefix == [s \in {"42abc", "1.5", "1"} |->
                  CASE s = "42abc" -> 42000 [] s = "1.5" -> 1500 [] s = "1" -> 1000]

\* Math.trunc of a number kept in thousandths
Trunc(k) == IF k >= 0 THEN (k \div 1000) * 1000 ELSE -(((-k) \div 1000) * 1000)

\* parseFloat(o): the argument is converted to a string first; an array's
\* string is its elements' strings joined by ",", so its numeric prefix is
\* that of its first element (null and undefined elements give "")
ParseFloat(o) ==
    CASE o.t = "num" -> o
      [] o.t = "str" -> IF o.s \in DOMAIN FloatPrefix THEN Num(FloatPrefix[o.s]) ELSE NaN
      [] o.t = "iso" -> Whole(1970)
      [] o.t = "arr" -> IF Len(o.items) = 0 THEN NaN ELSE ParseFloat(o.items[1])
      [] OTHER -> NaN

\* parseInt(o): the integer part of the numeric prefix
ParseInt(o) ==
    LET f == ParseFloat(o) IN IF f.t = "num" THEN Num(Trunc(f.milli)) ELSE NaN

\* what new Date(text) is given, for text the string of o: "" (empty), the
\* ISO-8601 text of a time value, or any other text
DateText(o) ==
    CASE o.t = "iso" -> o
      [] o.t = "str" -> IF o.s = "" THEN Str("") ELSE Str("other")
      [] o.t \in {"undefined", "null"} -> Str("")
      [] o.t = "arr" ->
            IF Len(o.items) = 0 THEN Str("")
            ELSE IF Len(o.items) = 1 THEN DateText(o.items[1])
            ELSE Str("other")
      [] OTHER -> Str("other")

\* new Date(text).getTime(): the time value, or NaN for an invalid date.  A
\* text that is not ISO-8601 is parsed by implementation-specific rules:
\* legacyDate is what the engine at hand makes of it.
DateParse(text) ==
    CASE text.t = "iso" -> Whole(text.ms)
      [] text.s = "" -> NaN
      [] OTHER -> legacyDate

\* new Date(x).getTime() for a number x: the integer part, NaN for NaN
TimeClip(x) == IF x.t = "num" THEN Num(Trunc(x.milli)) ELSE NaN

(***************************************************************************)
(* Outcomes of a call: the value returned or the exception thrown, and the *)
(* read (write) calls made, in order, up to that point.                    *)
(***************************************************************************)
Return(v, calls) == [ok |-> TRUE, val |-> v, calls |-> calls]

Throw(e, calls) == [ok |-> FALSE, err |-> e, calls |-> calls]

Call(S, arg) == [schema |-> S, arg |-> arg]

\* the text of a ParseError's `wanted`: a fixed text and, for oneOf and
\* variant, the list interpolated after it
Wanted(text, list) == [text |-> text, list |-> list]

ParseError(wanted, got) == [name |-> "ParseError", wanted |-> wanted, got |-> got]

\* what property access on null / undefined, or a call of a non-function, throws
TypeError == [name |-> "TypeError"]

parseError(wanted, got) == Throw(ParseError(wanted, got), <<>>)

(***************************************************************************)
(* Serializers as terms.                                                   *)
(***************************************************************************)
ScalarKinds == {"dateUnixSecs", "dateUnixMillis", "dateIso", "str", "nothing",
                "bool", "int", "float", "raw"}

Scalar(kind) == [kind |-> kind]

optional(s) == [kind |-> "optional", s |-> s]

nullable(s) == [kind |-> "nullable", s |-> s]

array(s) == [kind |-> "array", s |-> s]

\* def: the fields in declaration order, each [name, s]
obj(def) == [kind |-> "obj", fields |-> def]

partial_obj(def) == [kind |-> "partial_obj", fields |-> def]

\* def: the serializers in declaration order
tuple(def) == [kind |-> "tuple", items |-> def]

\* def: the property names of the object given, in declaration order
oneOf(def) == [kind |-> "oneOf", keys |-> def]

\* args: tag0, serializer0, tag1, serializer1, ...
variant(args) == [kind |-> "variant", args |-> args]

Field(name, s) == [name |-> name, s |-> s]

\* args.filter((v, i) => i%2==0) and args.filter((v, i) => i%2!=0)
variantTypes(S) == [j \in 1..((Len(S.args) + 1) \div 2) |-> S.args[2 * j - 1]]

variantSerializers(S) == [j \in 1..(Len(S.args) \div 2) |-> S.args[2 * j]]

\* the `container` property of the object a constructor returns; variant's
\* object literal has none
Container(S) ==
    CASE S.kind \in ScalarKinds \cup {"optional", "nullable"} -> Str("none")
      [] S.kind = "array" -> Str("list")
      [] S.kind \in {"obj", "partial_obj"} -> Str("obj")
      [] S.kind = "tuple" -> Str("tuple")
      [] S.kind = "oneOf" -> Str("sumtype")
      [] S.kind = "variant" -> Undef

\* ascending order of array-index property names
SortKeys(names) ==
    IF Len(names) = 0 THEN <<>>
    ELSE LET least == CHOOSE n \in {names[i] : i \in 1..Len(names)} :
                         \A m \in {names[i] : i \in 1..Len(names)} :
                            IndexNames[n] <= IndexNames[m]
         IN <<least>> \o SortKeys(SelectSeq(names, LAMBDA n : n # least))

\* Object.keys(def) for an object literal whose properties were written in
\* the order `names`: array-index names first, ascending, then the others
\* in the order written
ObjectKeys(names) ==
    SortKeys(SelectSeq(names, LAMBDA n : n \in DOMAIN IndexNames))
       \o SelectSeq(names, LAMBDA n : n \notin DOMAIN IndexNames)

FieldNames(S) == [i \in 1..Len(S.fields) |-> S.fields[i].name]

\* def[key]
FieldDef(S, key) ==
    LET i == CHOOSE j \in 1..Len(S.fields) : S.fields[j].name = key IN S.fields[i].s

\* out[key] = v
SetProp(out, key, v) == [n \in DOMAIN out \cup {key} |-> IF n = key THEN v ELSE out[n]]

\* a === b, for b a string literal
StrictEquals(a, b) == a.t = "str" /\ b.t = "str" /\ a.s = b.s

\* mutant of IndexOf: the last position of v, as xs.lastIndexOf(v)
lastIndexOf(xs, v) ==
    IF \E j \in 1..Len(xs) : StrictEquals(v, xs[j])
    THEN (CHOOSE j \in 1..Len(xs) :
             /\ StrictEquals(v, xs[j])
             /\ \A h \in (j + 1)..Len(xs) : ~StrictEquals(v, xs[h])) - 1
    ELSE -1

\* xs.indexOf(v), 0-based, -1 when absent
IndexOf(xs, v) ==
    IF \E j \in 1..Len(xs) : StrictEquals(v, xs[j])
    THEN (CHOOSE j \in 1..Len(xs) :
             /\ StrictEquals(v, xs[j])
             /\ \A h \in 1..(j - 1) : ~StrictEquals(v, xs[h])) - 1
    ELSE -1

(***************************************************************************)
(* read.  Every operator below is the body of one serializer's read; Read  *)
(* dispatches on the serializer and records the call.                      *)
(***************************************************************************)
dateUnixSecsRead(o) ==
    LET f == ParseFloat(o)
        d == TimeClip(IF f.t = "num" THEN Num(f.milli * 1000) ELSE NaN)
    IN IF d.t = "NaN" THEN parseError(Wanted("dateUnixSecs", <<>>), o)
       ELSE Return(Date(d.milli \div 1000), <<>>)

dateUnixMillisRead(o) ==
    LET d == TimeClip(ParseFloat(o))
    IN IF d.t = "NaN" THEN parseError(Wanted("dateUnixMillis", <<>>), o)
       ELSE Return(Date(d.milli \div 1000), <<>>)

dateIsoRead(o) ==
    LET d == TimeClip(DateParse(IF Truthy(o) THEN DateText(o) ELSE Str("")))
    IN IF d.t = "NaN" THEN parseError(Wanted("dateIso", <<>>), o)
       ELSE Return(Date(d.milli \div 1000), <<>>)

strRead(o) ==
    IF IsString(o) THEN Return(o, <<>>) ELSE parseError(Wanted("string", <<>>), o)

nothingRead(o) == Return(Undef, <<>>)

boolRead(o) ==
    IF o.t = "bool" THEN Return(o, <<>>) ELSE parseError(Wanted("boolean", <<>>), o)

intRead(o) ==
    LET i == ParseInt(o)
    IN IF i.t = "NaN" THEN parseError(Wanted("integer", <<>>), o) ELSE Return(i, <<>>)

floatRead(o) ==
    LET i == ParseFloat(o)
    IN IF i.t = "NaN" THEN parseError(Wanted("float", <<>>), o) ELSE Return(i, <<>>)

rawRead(o) == Return(o, <<>>)

\* mutant of optionalRead: `!o` for `o == null`
optionalReadFalsy(S, o) == IF ~Truthy(o) THEN Return(Undef, <<>>) ELSE Read(S.s, o)

optionalRead(S, o) == IF IsNullish(o) THEN Return(Undef, <<>>) ELSE Read(S.s, o)

nullableRead(S, o) == IF IsNullish(o) THEN Return(Null, <<>>) ELSE Read(S.s, o)

\* mutant of ReadEach: every part is read, and the first exception is thrown
\* after the last
ReadEachThenThrow(ss, args, i, acc) ==
    IF i > Len(ss)
    THEN IF "err" \in DOMAIN acc THEN Throw(acc.err, acc.calls)
         ELSE Return(Arr(acc.vals), acc.calls)
    ELSE LET r == Read(ss[i], args[i])
         IN IF "err" \in DOMAIN acc
            THEN ReadEachThenThrow(ss, args, i + 1, [acc EXCEPT !.calls = @ \o r.calls])
            ELSE IF r.ok
            THEN ReadEachThenThrow(ss, args, i + 1,
                    [vals |-> Append(acc.vals, r.val), calls |-> acc.calls \o r.calls])
            ELSE ReadEachThenThrow(ss, args, i + 1,
                    [vals |-> acc.vals, calls |-> acc.calls \o r.calls, err |-> r.err])

\* ss.map((d, i) => d.read(args[i])), from position i on: the calls are made
\* in order and the first exception ends the map
ReadEach(ss, args, i, acc) ==
    IF i > Len(ss) THEN Return(Arr(acc.vals), acc.calls)
    ELSE LET r == Read(ss[i], args[i])
         IN IF r.ok
            THEN ReadEach(ss, args, i + 1,
                          [vals |-> Append(acc.vals, r.val), calls |-> acc.calls \o r.calls])
            ELSE Throw(r.err, acc.calls \o r.calls)

arrayRead(S, o) ==
    IF IsArray(o)
    THEN ReadEach([i \in 1..Len(o.items) |-> S.s], o.items, 1, [vals |-> <<>>, calls |-> <<>>])
    ELSE parseError(Wanted("array", <<>>), o)

\* the body of `for (let key of Object.keys(def))`, from the i-th key on
ObjReadLoop(S, keys, i, o, out, calls) ==
    IF i > Len(keys) THEN Return(Obj(out), calls)
    ELSE IF IsObjectNotArray(o)
    THEN LET key == keys[i]
             d == IF S.kind = "partial_obj" THEN optional(FieldDef(S, key))
                  ELSE FieldDef(S, key)
             r == Read(d, GetProp(o, key))
         IN IF r.ok
            THEN ObjReadLoop(S, keys, i + 1, o, SetProp(out, key, r.val), calls \o r.calls)
            ELSE Throw(r.err, calls \o r.calls)
    ELSE Throw(ParseError(Wanted("an object", <<>>), o), calls)

objRead(S, o) == ObjReadLoop(S, ObjectKeys(FieldNames(S)), 1, o, EmptyProps, <<>>)

\* mutant of tupleRead: positions the input lacks are not read
tupleReadShort(S, o) ==
    IF IsArray(o)
    THEN LET n == IF Len(o.items) < Len(S.items) THEN Len(o.items) ELSE Len(S.items)
         IN ReadEach(SubSeq(S.items, 1, n), SubSeq(o.items, 1, n), 1,
                     [vals |-> <<>>, calls |-> <<>>])
    ELSE parseError(Wanted("an array", <<>>), o)

tupleRead(S, o) ==
    IF IsArray(o)
    THEN ReadEach(S.items, [i \in 1..Len(S.items) |-> GetIndex(o, i - 1)], 1,
                  [vals |-> <<>>, calls |-> <<>>])
    ELSE parseError(Wanted("an array", <<>>), o)

oneOfRead(S, o) ==
    LET keys == ObjectKeys(S.keys)
        names == [i \in 1..Len(keys) |-> Str(keys[i])]
    IN IF IndexOf(names, o) # -1 THEN Return(o, <<>>)
       ELSE parseError(Wanted("one of", names), o)

\* mutant of WithType: { type: type, ...payload }
TypeFirst(payload, type) ==
    Obj(IF "type" \in DOMAIN payload.f THEN payload.f ELSE SetProp(payload.f, "type", type))

\* { ...payload, type: type }
WithType(payload, type) == Obj(SetProp(payload.f, "type", type))

variantRead(S, o) ==
    IF IsNullish(o) THEN Throw(TypeError, <<>>)
    ELSE LET type == GetProp(o, "type")
             i == IndexOf(variantTypes(S), type)
         IN IF i = -1 THEN parseError(Wanted("type in", variantTypes(S)), o)
            ELSE IF i + 1 > Len(variantSerializers(S)) THEN Throw(TypeError, <<>>)
            ELSE LET r == Read(variantSerializers(S)[i + 1], o)
                 IN IF r.ok THEN Return(WithType(r.val, type), r.calls) ELSE r

ReadBody(S, o) ==
    CASE S.kind = "dateUnixSecs" -> dateUnixSecsRead(o)
      [] S.kind = "dateUnixMillis" -> dateUnixMillisRead(o)
      [] S.kind = "dateIso" -> dateIsoRead(o)
      [] S.kind = "str" -> strRead(o)
      [] S.kind = "nothing" -> nothingRead(o)
      [] S.kind = "bool" -> boolRead(o)
      [] S.kind = "int" -> intRead(o)
      [] S.kind = "float" -> floatRead(o)
      [] S.kind = "raw" -> rawRead(o)
      [] S.kind = "optional" -> optionalRead(S, o)
      [] S.kind = "nullable" -> nullableRead(S, o)
      [] S.kind = "array" -> arrayRead(S, o)
      [] S.kind \in {"obj", "partial_obj"} -> objRead(S, o)
      [] S.kind = "tuple" -> tupleRead(S, o)
      [] S.kind = "oneOf" -> oneOfRead(S, o)
      [] S.kind = "variant" -> variantRead(S, o)

\* S.read(o)
Read(S, o) == LET r == ReadBody(S, o) IN [r EXCEPT !.calls = <<Call(S, o)>> \o @]

(***************************************************************************)
(* write.                                                                  *)
(***************************************************************************)
\* t.getTime() / 1000.0
dateUnixSecsWrite(t) ==
    IF t.t = "date" THEN Return(Num(Whole(t.ms).milli \div 1000), <<>>)
    ELSE Throw(TypeError, <<>>)

\* t.getTime()
dateUnixMillisWrite(t) ==
    IF t.t = "date" THEN Return(Whole(t.ms), <<>>) ELSE Throw(TypeError, <<>>)

\* t.toISOString()
dateIsoWrite(t) ==
    IF t.t = "date" THEN Return(Iso(t.ms), <<>>) ELSE Throw(TypeError, <<>>)

strWrite(t) == Return(t, <<>>)

nothingWrite(t) == Return(Str(""), <<>>)

boolWrite(t) == Return(t, <<>>)

intWrite(t) == Return(t, <<>>)

floatWrite(t) == Return(t, <<>>)

rawWrite(t) == Return(t, <<>>)

optionalWrite(S, t) == IF IsNullish(t) THEN Return(Null, <<>>) ELSE Write(S.s, t)

nullableWrite(S, t) == IF IsNullish(t) THEN Return(Null, <<>>) ELSE Write(S.s, t)

\* ss.map((d, i) => d.write(args[i])), from position i on
WriteEach(ss, args, i, acc) ==
    IF i > Len(ss) THEN Return(Arr(acc.vals), acc.calls)
    ELSE LET r == Write(ss[i], args[i])
         IN IF r.ok
            THEN WriteEach(ss, args, i + 1,
                           [vals |-> Append(acc.vals, r.val), calls |-> acc.calls \o r.calls])
            ELSE Throw(r.err, acc.calls \o r.calls)

arrayWrite(S, o) ==
    IF IsArray(o)
    THEN WriteEach([i \in 1..Len(o.items) |-> S.s], o.items, 1, [vals |-> <<>>, calls |-> <<>>])
    ELSE Throw(TypeError, <<>>)

\* the body of write's `for (let key of Object.keys(def))`, from the i-th key on
ObjWriteLoop(S, keys, i, r, out, calls) ==
    IF i > Len(keys) THEN Return(Obj(out), calls)
    ELSE IF IsNullish(r) THEN Throw(TypeError, calls)
    ELSE LET key == keys[i]
             d == IF S.kind = "partial_obj" THEN optional(FieldDef(S, key))
                  ELSE FieldDef(S, key)
             w == Write(d, GetProp(r, key))
         IN IF w.ok
            THEN ObjWriteLoop(S, keys, i + 1, r, SetProp(out, key, w.val), calls \o w.calls)
            ELSE Throw(w.err, calls \o w.calls)

\* mutant of objWrite: `out` starts as a copy of r, { ...r }
objWriteSpread(S, r) ==
    ObjWriteLoop(S, ObjectKeys(FieldNames(S)), 1, r,
                 IF r.t = "obj" THEN r.f ELSE EmptyProps, <<>>)

objWrite(S, r) == ObjWriteLoop(S, ObjectKeys(FieldNames(S)), 1, r, EmptyProps, <<>>)

tupleWrite(S, r) ==
    IF Len(S.items) > 0 /\ IsNullish(r) THEN Throw(TypeError, <<>>)
    ELSE WriteEach(S.items,
                   [i \in 1..Len(S.items) |-> IF IsArray(r) THEN GetIndex(r, i - 1) ELSE Undef],
                   1, [vals |-> <<>>, calls |-> <<>>])

oneOfWrite(S, t) == Return(t, <<>>)

variantWrite(S, t) ==
    IF IsNullish(t) THEN Throw(TypeError, <<>>)
    ELSE LET type == GetProp(t, "type")
             i == IndexOf(variantTypes(S), type)
         IN IF i = -1 \/ i + 1 > Len(variantSerializers(S)) THEN Throw(TypeError, <<>>)
            ELSE LET w == Write(variantSerializers(S)[i + 1], t)
                 IN IF w.ok THEN Return(WithType(w.val, type), w.calls) ELSE w

WriteBody(S, t) ==
    CASE S.kind = "dateUnixSecs" -> dateUnixSecsWrite(t)
      [] S.kind = "dateUnixMillis" -> dateUnixMillisWrite(t)
      [] S.kind = "dateIso" -> dateIsoWrite(t)
      [] S.kind = "str" -> strWrite(t)
      [] S.kind = "nothing" -> nothingWrite(t)
      [] S.kind = "bool" -> boolWrite(t)
      [] S.kind = "int" -> intWrite(t)
      [] S.kind = "float" -> floatWrite(t)
      [] S.kind = "raw" -> rawWrite(t)
      [] S.kind = "optional" -> optionalWrite(S, t)
      [] S.kind = "nullable" -> nullableWrite(S, t)
      [] S.kind = "array" -> arrayWrite(S, t)
      [] S.kind \in {"obj", "partial_obj"} -> objWrite(S, t)
      [] S.kind = "tuple" -> tupleWrite(S, t)
      [] S.kind = "oneOf" -> oneOfWrite(S, t)
      [] S.kind = "variant" -> variantWrite(S, t)

\* S.write(t)
Write(S, t) == LET w == WriteBody(S, t) IN [w EXCEPT !.calls = <<Call(S, t)>> \o @]

(***************************************************************************)
(* The serializers and the untyped inputs of the model.                    *)
(***************************************************************************)
MaxLen == 2

MaxArity == 2

MaxFields == 2

SeqsUpTo(X, n) == UNION {[1..k -> X] : k \in 0..n}

PropNames == {"a", "1", "type"}

Leaves == {Scalar(k) : k \in ScalarKinds}

Modified == {optional(s) : s \in Leaves} \cup {nullable(s) : s \in Leaves}

FieldSchemas == {Scalar("str"), Scalar("int"), Scalar("nothing")}

\* the properties of an object literal have distinct names
FieldLists ==
    {d \in SeqsUpTo({Field(n, s) : n \in PropNames, s \in FieldSchemas}, MaxFields) :
        \A i, j \in 1..Len(d) : d[i].name = d[j].name => i = j}

Objects == {obj(d) : d \in FieldLists} \cup {partial_obj(d) : d \in FieldLists}

Tuples ==
    {tuple(d) : d \in SeqsUpTo({Scalar("str"), Scalar("int"), optional(Scalar("str"))},
                               MaxArity)}

Arrays == {array(s) : s \in {Scalar("str"), Scalar("int"), Scalar("nothing"),
                             optional(Scalar("str"))}}

OneOfs == {oneOf(<<"add", "remove">>), oneOf(<<"x", "1">>), oneOf(<<>>)}

VariantTags == {Str("add"), Str("1")}

Payloads == {obj(<<Field("a", Scalar("str"))>>),
             obj(<<Field("type", Scalar("int"))>>),
             partial_obj(<<Field("type", Scalar("nothing")), Field("a", Scalar("int"))>>)}

Branches == {<<tag, s>> : tag \in VariantTags, s \in Payloads}

Variants == {variant(b) : b \in Branches}
               \cup {variant(b \o c) : b \in Branches, c \in Branches}

AddRemove == variant(<<Str("add"), obj(<<Field("a", Scalar("int"))>>),
                       Str("remove"), obj(<<Field("a", Scalar("int"))>>)>>)

Nested == {nullable(optional(Scalar("nothing"))), optional(nullable(Scalar("str"))),
           optional(obj(<<Field("a", Scalar("str"))>>)),
           array(obj(<<Field("a", Scalar("str"))>>)),
           array(tuple(<<Scalar("str"), Scalar("int")>>)),
           array(array(Scalar("int"))),
           obj(<<Field("a", AddRemove)>>),
           obj(<<Field("a", optional(AddRemove)), Field("type", oneOf(<<"add", "remove">>))>>),
           tuple(<<Scalar("str"), AddRemove>>),
           array(AddRemove), AddRemove, nullable(AddRemove)}

Schemas == Leaves \cup Modified \cup Objects \cup Tuples \cup Arrays \cup OneOfs
              \cup Variants \cup Nested

ScalarInputs == {Undef, Null, Bool(TRUE), Bool(FALSE), Whole(0), Whole(5), Num(1500),
                 Str(""), Str("x"), Str("42abc"), Str("1"), Str("add"), Str("remove"),
                 Iso(5)}

ArrayInputs == {Arr(xs) : xs \in SeqsUpTo({Null, Whole(5), Str("x"), Str("42abc")}, MaxLen)}

ObjectInputs ==
    {Obj(f) : f \in UNION {[D -> {Null, Whole(5), Str("x"), Str("add"), Str("1")}] :
                             D \in SUBSET PropNames}}

NestedInputs ==
    {Arr(<<Obj([a |-> Str("x")])>>), Arr(<<Obj([a |-> Whole(5)]), Obj([a |-> Str("x")])>>),
     Arr(<<Arr(<<Str("x"), Whole(5)>>), Arr(<<Whole(5)>>)>>),
     Arr(<<Arr(<<Whole(5)>>), Arr(<<Str("42abc")>>)>>),
     Arr(<<Iso(5)>>),
     Obj([a |-> Obj([type |-> Str("add"), a |-> Whole(5)])]),
     Obj([a |-> Obj([type |-> Str("mul"), a |-> Whole(5)]), type |-> Str("add")]),
     Obj([type |-> Str("remove"), a |-> Str("42abc")]),
     Obj([type |-> Str("mul"), a |-> Whole(5)]),
     Arr(<<Str("x"), Obj([type |-> Str("add"), a |-> Whole(5)])>>),
     Arr(<<Obj([type |-> Str("remove"), a |-> Whole(5)]), Null>>)}

Inputs == ScalarInputs \cup ArrayInputs \cup ObjectInputs \cup NestedInputs

RECURSIVE UsesDateIso(_)
\* whether a read of S can reach new Date(text)
UsesDateIso(S) ==
    CASE S.kind = "dateIso" -> TRUE
      [] S.kind \in {"optional", "nullable", "array"} -> UsesDateIso(S.s)
      [] S.kind \in {"obj", "partial_obj"} ->
            \E i \in 1..Len(S.fields) : UsesDateIso(S.fields[i].s)
      [] S.kind = "tuple" -> \E i \in 1..Len(S.items) : UsesDateIso(S.items[i])
      [] S.kind = "variant" ->
            \E i \in 1..Len(variantSerializers(S)) : UsesDateIso(variantSerializers(S)[i])
      [] OTHER -> FALSE

(***************************************************************************)
(* The state machine: a serializer is constructed and an untyped value     *)
(* arrives (Init); the value is read; the value read is written; what was  *)
(* written is read again.                                                  *)
(***************************************************************************)
Idle == [ok |-> FALSE, err |-> [name |-> "none"], calls |-> <<>>]

Init ==
    /\ schema \in Schemas
    /\ input \in Inputs
    /\ legacyDate \in (IF UsesDateIso(schema) THEN {NaN, Whole(0)} ELSE {NaN})
    /\ pc = "init"
    /\ decoded = Idle
    /\ typed = Undef
    /\ encoded = Idle
    /\ redecoded = Idle

\* schema.read(input)
Decode ==
    /\ pc = "init"
    /\ decoded' = Read(schema, input)
    /\ pc' = "decoded"
    /\ UNCHANGED <<schema, input, legacyDate, typed, encoded, redecoded>>

\* schema.write(t) for the value t just read
Encode ==
    /\ pc = "decoded"
    /\ decoded.ok
    /\ typed' = decoded.val
    /\ encoded' = Write(schema, decoded.val)
    /\ pc' = "encoded"
    /\ UNCHANGED <<schema, input, legacyDate, decoded, redecoded>>

\* schema.read(schema.write(t))
Redecode ==
    /\ pc = "encoded"
    /\ encoded.ok
    /\ redecoded' = Read(schema, encoded.val)
    /\ pc' = "done"
    /\ UNCHANGED <<schema, input, legacyDate, decoded, typed, encoded>>

\* optional(s).write(t) and nullable(s).write(t) for an absent t
EncodeAbsent ==
    /\ pc = "init"
    /\ schema.kind \in {"optional", "nullable"}
    /\ \E t \in {Undef, Null} :
          /\ typed' = t
          /\ encoded' = Write(schema, t)
    /\ pc' = "written"
    /\ UNCHANGED <<schema, input, legacyDate, decoded, redecoded>>

\* obj(def).write(r) and partial_obj(def).write(r) for a value r of the
\* serializer's type that carries a property def does not declare
EncodeWider ==
    /\ pc = "decoded"
    /\ decoded.ok
    /\ schema.kind \in {"obj", "partial_obj"}
    /\ typed' = Obj(SetProp(decoded.val.f, "extra", Str("x")))
    /\ encoded' = Write(schema, typed')
    /\ pc' = "encoded"
    /\ UNCHANGED <<schema, input, legacyDate, decoded, redecoded>>

Next == Decode \/ Encode \/ Redecode \/ EncodeAbsent \/ EncodeWider

Spec == Init /\ [][Next]_vars

(***************************************************************************)
(* Properties.                                                             *)
(***************************************************************************)
RECURSIVE CallsUpTo(_, _)
\* the calls of the outcomes rs[1], ..., rs[k], in order
CallsUpTo(rs, k) == IF k = 0 THEN <<>> ELSE CallsUpTo(rs, k - 1) \o rs[k].calls

Least(I) == CHOOSE i \in I : \A j \in I : i <= j

\* the outcome of reading each part, a part being [s, arg]
ReadParts(parts) == [i \in 1..Len(parts) |-> Read(parts[i].s, parts[i].arg)]

Failing(rs) == {i \in 1..Len(rs) : ~rs[i].ok}

\* C1: reading what write made of a value read succeeds and yields that value
RoundTrip ==
    /\ pc = "encoded" /\ typed = decoded.val => encoded.ok
    /\ pc = "done" => redecoded.ok /\ redecoded.val = decoded.val

\* C2: a read that does not succeed fails with a ParseError, which carries
\* what was wanted and the value found
SingleFailureKind ==
    /\ pc = "decoded" /\ ~decoded.ok =>
          /\ decoded.err.name = "ParseError"
          /\ DOMAIN decoded.err = {"name", "wanted", "got"}
    /\ pc = "done" /\ ~redecoded.ok => redecoded.err.name = "ParseError"

\* C3: obj(def).read of anything but a non-array object fails with
\* "expected an object" and returns no value
ObjRequiresObject ==
    pc = "decoded" /\ schema.kind = "obj" /\ ~IsObjectNotArray(input) =>
       /\ ~decoded.ok
       /\ decoded.err = ParseError(Wanted("an object", <<>>), input)

\* C6: every serializer constructed carries a container kind, the one of its
\* constructor
ContainerKinds ==
    /\ Container(schema) \in {Str("none"), Str("list"), Str("obj"), Str("tuple"),
                              Str("sumtype")}
    /\ schema.kind \in ScalarKinds \cup {"optional", "nullable"} =>
          Container(schema) = Str("none")
    /\ schema.kind = "array" => Container(schema) = Str("list")
    /\ schema.kind \in {"obj", "partial_obj"} => Container(schema) = Str("obj")
    /\ schema.kind = "tuple" => Container(schema) = Str("tuple")
    /\ schema.kind \in {"oneOf", "variant"} => Container(schema) = Str("sumtype")

\* the branches of a variant whose tag is the string v
Matching(S, v) ==
    {j \in 1..Len(variantSerializers(S)) : v.t = "str" /\ variantTypes(S)[j] = v}

\* C4: a variant reads an input whose type is a declared tag with the
\* serializer of the first such tag and returns its result with type set to
\* the input's; an input whose type is no declared tag fails with
\* "expected type in <tags>" and no payload serializer is called; write
\* picks the serializer by the same rule on the value's type
UnionDispatch ==
    schema.kind = "variant" =>
       /\ pc = "decoded" /\ ~IsNullish(input) =>
             LET type == GetProp(input, "type")
                 hit == Matching(schema, type)
             IN IF hit = {}
                THEN decoded = Throw(ParseError(Wanted("type in", variantTypes(schema)), input),
                                     <<Call(schema, input)>>)
                ELSE LET r == Read(variantSerializers(schema)[Least(hit)], input)
                     IN /\ decoded.calls = <<Call(schema, input)>> \o r.calls
                        /\ decoded.ok = r.ok
                        /\ ~r.ok => decoded.err = r.err
                        /\ r.ok =>
                              /\ DOMAIN decoded.val.f = DOMAIN r.val.f \cup {"type"}
                              /\ decoded.val.f["type"] = type
                              /\ \A k \in DOMAIN r.val.f \ {"type"} :
                                    decoded.val.f[k] = r.val.f[k]
       /\ pc = "encoded" =>
             LET hit == Matching(schema, GetProp(typed, "type"))
             IN /\ hit # {}
                /\ encoded.calls[2] = Call(variantSerializers(schema)[Least(hit)], typed)

\* C4 witness: both outcomes of the dispatch, with a tag declared twice
UnionDispatchWitness ==
    /\ schema.kind = "variant"
    /\ pc = "encoded"
    /\ Cardinality(Matching(schema, GetProp(input, "type"))) = 2
    /\ variantSerializers(schema)[1] # variantSerializers(schema)[2]

\* C4 witness: an input whose type is no declared tag
UnionMismatchWitness ==
    /\ schema.kind = "variant"
    /\ pc = "decoded"
    /\ ~IsNullish(input)
    /\ GetProp(input, "type") = Str("mul")
    /\ ~decoded.ok

\* the parts obj / partial_obj, tuple and array read, in the order `keys`
\* for an object's fields
PartsIn(S, o, keys) ==
    CASE S.kind = "obj" ->
            [i \in 1..Len(keys) |-> [s |-> FieldDef(S, keys[i]), arg |-> GetProp(o, keys[i])]]
      [] S.kind = "partial_obj" ->
            [i \in 1..Len(keys) |->
                [s |-> optional(FieldDef(S, keys[i])), arg |-> GetProp(o, keys[i])]]
      [] S.kind = "tuple" ->
            [i \in 1..Len(S.items) |-> [s |-> S.items[i], arg |-> GetIndex(o, i - 1)]]
      [] S.kind = "array" ->
            [i \in 1..Len(o.items) |-> [s |-> S.s, arg |-> o.items[i]]]

\* the input has the shape the container serializer asks for
Shaped(S, o) ==
    /\ S.kind \in {"obj", "partial_obj", "tuple", "array"}
    /\ IF S.kind \in {"obj", "partial_obj"} THEN IsObjectNotArray(o) ELSE IsArray(o)

\* the read failed with the error of the first invalid part, and no part
\* after that one was read
FailsFast(parts) ==
    LET rs == ReadParts(parts)
    IN Failing(rs) # {} =>
          /\ ~decoded.ok
          /\ decoded.err = rs[Least(Failing(rs))].err
          /\ decoded.calls = <<Call(schema, input)>> \o CallsUpTo(rs, Least(Failing(rs)))

\* C5 as stated: the error is that of the first invalid part, fields taken
\* in declaration order, and the parts after it are not read
FailFastDeclarationOrder ==
    pc = "decoded" /\ Shaped(schema, input) =>
       FailsFast(PartsIn(schema, input,
                         IF schema.kind \in {"obj", "partial_obj"} THEN FieldNames(schema)
                         ELSE <<>>))

\* C5 amended: the same, fields taken in the order of Object.keys(def):
\* array-index names ascending, then the other names in declaration order
FailFastKeyOrder ==
    pc = "decoded" /\ Shaped(schema, input) =>
       FailsFast(PartsIn(schema, input,
                         IF schema.kind \in {"obj", "partial_obj"}
                         THEN ObjectKeys(FieldNames(schema)) ELSE <<>>))

\* C5 witness: an object serializer whose Object.keys order is not its
\* declaration order meets two invalid fields with different errors
FailFastWitness ==
    /\ pc = "decoded"
    /\ Shaped(schema, input)
    /\ schema.kind \in {"obj", "partial_obj"}
    /\ ObjectKeys(FieldNames(schema)) # FieldNames(schema)
    /\ LET rs == ReadParts(PartsIn(schema, input, ObjectKeys(FieldNames(schema))))
       IN \E i, j \in Failing(rs) : i < j /\ rs[i].err # rs[j].err

\* C7: a tuple reads position i of a sequence with its i-th serializer,
\* whatever the sequence's length (undefined where it is too short), and
\* fails with "expected an array" on anything else; write yields one
\* position per serializer
TupleArity ==
    schema.kind = "tuple" =>
       /\ pc = "decoded" /\ ~IsArray(input) =>
             decoded = Throw(ParseError(Wanted("an array", <<>>), input),
                             <<Call(schema, input)>>)
       /\ pc = "decoded" /\ IsArray(input) =>
             LET rs == [i \in 1..Len(schema.items) |->
                          Read(schema.items[i],
                               IF i <= Len(input.items) THEN input.items[i] ELSE Undef)]
             IN /\ decoded.ok = (Failing(rs) = {})
                /\ decoded.ok =>
                      /\ IsArray(decoded.val)
                      /\ Len(decoded.val.items) = Len(schema.items)
                      /\ \A i \in 1..Len(schema.items) : decoded.val.items[i] = rs[i].val
       /\ pc = "encoded" =>
             /\ encoded.ok
             /\ IsArray(encoded.val)
             /\ Len(encoded.val.items) = Len(schema.items)
             /\ \A i \in 1..Len(schema.items) :
                   encoded.val.items[i] = Write(schema.items[i], typed.items[i]).val

\* C7 witness: a sequence shorter than the tuple is read, and written back
TupleShortWitness ==
    /\ schema.kind = "tuple"
    /\ pc = "encoded"
    /\ IsArray(input)
    /\ Len(input.items) < Len(schema.items)

\* C7 witness: a sequence longer than the tuple is read
TupleLongWitness ==
    /\ schema.kind = "tuple"
    /\ pc = "decoded"
    /\ decoded.ok
    /\ IsArray(input)
    /\ Len(input.items) > Len(schema.items)
    /\ Len(schema.items) > 0

\* C8: optional(s) and nullable(s) answer null and undefined themselves
\* (undefined, resp. null, on read; null on write) without calling s, and
\* hand every other value, falsy ones included, to s unchanged
AbsenceHandling ==
    schema.kind \in {"optional", "nullable"} =>
       /\ pc = "decoded" =>
             IF input \in {Null, Undef}
             THEN decoded = Return(IF schema.kind = "optional" THEN Undef ELSE Null,
                                   <<Call(schema, input)>>)
             ELSE LET r == Read(schema.s, input)
                  IN /\ decoded.calls = <<Call(schema, input)>> \o r.calls
                     /\ decoded.calls[2] = Call(schema.s, input)
                     /\ decoded.ok = r.ok
                     /\ IF r.ok THEN decoded.val = r.val ELSE decoded.err = r.err
       /\ pc \in {"encoded", "written"} =>
             IF typed \in {Null, Undef}
             THEN encoded = Return(Null, <<Call(schema, typed)>>)
             ELSE LET w == Write(schema.s, typed)
                  IN /\ encoded.calls = <<Call(schema, typed)>> \o w.calls
                     /\ encoded.ok
                     /\ encoded.val = w.val
                     /\ encoded.val # Null

\* C8 witness: a falsy input that is neither null nor undefined is read
AbsenceFalsyWitness ==
    /\ schema.kind \in {"optional", "nullable"}
    /\ pc = "decoded"
    /\ input \in {Whole(0), Str(""), Bool(FALSE)}
    /\ decoded.ok
    /\ decoded.val = input

\* C8 witness: null is written for an absent value
AbsenceWriteWitness ==
    /\ schema.kind \in {"optional", "nullable"}
    /\ pc = "written"
    /\ encoded.val = Null

\* C9: what obj and partial_obj read and what they write has exactly the
\* declared field names as its keys; partial_obj writes null for a field
\* the value lacks
FieldIdentity ==
    schema.kind \in {"obj", "partial_obj"} =>
       LET declared == {schema.fields[i].name : i \in 1..Len(schema.fields)}
       IN /\ pc = "decoded" /\ decoded.ok => DOMAIN decoded.val.f = declared
          /\ pc = "encoded" =>
                /\ encoded.ok
                /\ DOMAIN encoded.val.f = declared
                /\ schema.kind = "partial_obj" =>
                      \A k \in declared :
                         IsNullish(GetProp(typed, k)) => encoded.val.f[k] = Null

\* C9 witness: the input has a key that is not declared and lacks one that is
FieldIdentityReadWitness ==
    /\ schema.kind \in {"obj", "partial_obj"}
    /\ pc = "decoded"
    /\ decoded.ok
    /\ input.t = "obj"
    /\ \E k \in DOMAIN input.f : \A i \in 1..Len(schema.fields) : schema.fields[i].name # k
    /\ \E i \in 1..Len(schema.fields) : schema.fields[i].name \notin DOMAIN input.f

\* C9 witness: the value written has a key that is not declared, and a
\* declared field of a partial_obj is absent from it
FieldIdentityWriteWitness ==
    /\ schema.kind = "partial_obj"
    /\ pc = "encoded"
    /\ "extra" \in DOMAIN typed.f
    /\ \E i \in 1..Len(schema.fields) : typed.f[schema.fields[i].name] = Undef

\* C10: the type of what a variant reads is the input's type, and the type
\* of what it writes is the value's type, whatever the payload serializer
\* makes of a field named type
DiscriminantWins ==
    schema.kind = "variant" =>
       /\ pc = "decoded" /\ decoded.ok => decoded.val.f["type"] = GetProp(input, "type")
       /\ pc = "encoded" /\ encoded.ok => encoded.val.f["type"] = GetProp(typed, "type")
       /\ pc = "done" /\ redecoded.ok =>
             redecoded.val.f["type"] = GetProp(encoded.val, "type")

\* C10 witness: the payload serializer declares type, and both its read and
\* its write yield another value for it than the one the variant returns
DiscriminantWitness ==
    /\ schema.kind = "variant"
    /\ pc = "encoded"
    /\ encoded.ok
    /\ LET p == decoded.calls[2].schema
       IN /\ \E i \in 1..Len(p.fields) : p.fields[i].name = "type"
          /\ Read(p, input).val.f["type"] # decoded.val.f["type"]
          /\ Write(p, typed).val.f["type"] # encoded.val.f["type"]

====
